---- MODULE Spec2Model ----
(***************************************************************************)
(* Model of the dapp_punks repository: the allowlist Merkle tree built by  *)
(* src/src/utils.js (CustomMerkleTree over merkletreejs) and the NFT       *)
(* contract of src/contracts/NFT.sol that verifies its proofs on mint.     *)
(*                                                                         *)
(* Byte strings are sequences of integer symbols.  keccak256 is modelled   *)
(* as a collision-free function: the digest of a byte string is that byte  *)
(* string between the two delimiters KOpen and KClose, so two digests are  *)
(* equal exactly when their pre-images are.  A hex string is the symbol    *)
(* HexPrefix ("0x") followed by the bytes it spells.                       *)
(***************************************************************************)
EXTENDS Integers, Sequences, FiniteSets, TLC

\* The caller of utils.js: the allowlist it holds, the tree it was given and
\* the outcome of its last call.
VARIABLES allowlist, tree, ret

\* The NFT contract: its own storage (NFT.sol), the storage it inherits
\* (Ownable, ERC721Enumerable), the ether held by the contract and by the
\* accounts, the block time, and the outcome of the last transaction or call.
VARIABLES cost, maxSupply, allowMintingOn, maxMintAmountPerTx, paused,
          allowedAddressesRoot, allowedAddresses, owner,
          tokenOwner, allTokens, ownedTokens, nftBalance,
          balance, wallet, now, lastTx

\* The mint form of the web page (the Mint component inside App): its React
\* state, the props it is rendered with, and the place its submit handler
\* has reached.
VARIABLE form

\* ------------------------------------------------------------------ bounds
\* Number of distinct 20-byte account addresses (1 .. NumAddr).
NumAddr == 3
\* Longest allowlist handed to buildMerkleTree.
MaxLen == 3
\* Longest forged proof handed to verify.
MaxProofLen == 2

\* Constructor arguments of the deployments explored: _maxSupply,
\* _maxMintAmountPerTx, and the largest _cost / setCost argument.
MaxSupply == 3
MaxMintAmountPerTx == 2
MaxCost == 1
\* Ether every account starts with.
InitFunds == 1
\* Latest block time explored.
MaxTime == 1

\* ------------------------------------------------------------- byte symbols
\* The 12 zero bytes abi.encode puts in front of an address.
AbiPad == 0
\* Delimiters of a keccak256 digest (the digest stands for its pre-image).
KOpen == -1
KClose == -2
\* The "0x" prefix of a hex string.
HexPrefix == -3
\* bytes32(0), the value of an unset bytes32 storage slot.
ZeroWord == -4
\* A JavaScript value that is not a string (null, a number): <<NotAString>>.
NotAString == -5

Addr == 1 .. NumAddr
\* An address string as JavaScript holds it: <<20-byte value, spelling>>,
\* the spelling being EIP-55 checksummed or lower-case.
\* Every address has its checksummed string; address 1 also has its
\* lower-case one, so that two strings of one address occur.
AddrStr ==
  {s \in Addr \X {"checksum", "lower"} : s[2] = "checksum" \/ s[1] = 1}

RECURSIVE SeqsUpTo(_, _)
SeqsUpTo(S, n) ==
  IF n = 0 THEN {<<>>}
  ELSE LET shorter == SeqsUpTo(S, n - 1)
       IN shorter \cup {Append(s, x) : s \in {t \in shorter : Len(t) = n - 1}, x \in S}

\* ------------------------------------------------------------ byte helpers
\* Buffer.compare: -1, 0 or 1 by byte-wise lexicographic order.
RECURSIVE BufferCompare(_, _)
BufferCompare(a, b) ==
  IF a = <<>> /\ b = <<>> THEN 0
  ELSE IF a = <<>> THEN -1
  ELSE IF b = <<>> THEN 1
  ELSE IF Head(a) < Head(b) THEN -1
  ELSE IF Head(a) > Head(b) THEN 1
  ELSE BufferCompare(Tail(a), Tail(b))

\* The keccak256 permutation on bytes.
Keccak256(bytes) == <<KOpen>> \o bytes \o <<KClose>>

\* '0x' + buf.toString('hex')
ToHex(buf) == <<HexPrefix>> \o buf

\* Buffer.from(s.slice(2), 'hex'): slice(2) drops the first two characters,
\* whatever they are; for a hex string that is its "0x" prefix.
FromHexSlice2(s) == IF s = <<>> THEN <<>> ELSE Tail(s)

\* ethers keccak256(data): data is a hex string or a byte array, the result
\* is a hex string.
EthersKeccak256(data) ==
  LET bytes == IF data # <<>> /\ Head(data) = HexPrefix THEN Tail(data) ELSE data
  IN ToHex(Keccak256(bytes))

\* defaultAbiCoder.encode(['address'], [address]): one 32-byte word, the
\* 20-byte value left-padded with zeros; the spelling of the string is gone.
AbiEncodeAddress(address) == ToHex(<<AbiPad, address[1]>>)

\* abi.encodePacked(address): the bare 20 bytes.
AbiEncodePacked(a) == <<a>>

\* ----------------------------------------------------------- merkletreejs
\* bufferifyFn(keccak256): the node hash function of the tree, on Buffers.
HashFn(buf) == FromHexSlice2(EthersKeccak256(buf))

\* combined = [left, right]; combined.sort(Buffer.compare) (sortPairs: true)
SortPair(left, right) ==
  IF BufferCompare(left, right) = 1 THEN <<right, left>> ELSE <<left, right>>

UnsortedPair(left, right) == <<left, right>>

\* The pair order used when a layer is built.
BuildPair(left, right) == SortPair(left, right)

\* hashFn(Buffer.concat(combined))
CombinePair(left, right) ==
  LET combined == BuildPair(left, right)
  IN HashFn(combined[1] \o combined[2])

\* One round of _createHashes: adjacent pairs are combined, the last node of
\* an odd layer is pushed unchanged (duplicateOdd is off).
NextLayer(nodes) ==
  LET n == Len(nodes)
  IN [k \in 1 .. ((n + 1) \div 2) |->
        IF 2 * k <= n THEN CombinePair(nodes[2 * k - 1], nodes[2 * k])
        ELSE nodes[2 * k - 1]]

\* _createHashes: layers[0] is the leaves; layers are added while the last
\* one has more than one node.
RECURSIVE CreateHashes(_)
CreateHashes(nodes) ==
  IF Len(nodes) <= 1 THEN <<nodes>>
  ELSE <<nodes>> \o CreateHashes(NextLayer(nodes))

\* A root that hashes the leaf of a one-leaf tree once more.
GetRootHashedLeaf(layers) ==
  IF layers = <<>> THEN <<>>
  ELSE IF layers[Len(layers)] = <<>> THEN <<>>
  ELSE IF Len(layers) = 1 THEN HashFn(layers[1][1])
  ELSE layers[Len(layers)][1]

\* MerkleTree.getRoot(): the only node of the last layer, or an empty Buffer.
GetRoot(layers) ==
  IF layers = <<>> THEN <<>>
  ELSE IF layers[Len(layers)] = <<>> THEN <<>>
  ELSE layers[Len(layers)][1]

\* MerkleTree.getProof(leaf): the index searched is the last position of
\* layer 0 that holds the leaf (-1 if none); indices here are 0-based.
LeafIndex(leaves, leaf) ==
  LET hits == {i \in 1 .. Len(leaves) : BufferCompare(leaf, leaves[i]) = 0}
  IN IF hits = {} THEN -1
     ELSE (CHOOSE i \in hits : \A j \in hits : j <= i) - 1

RECURSIVE ProofFrom(_, _, _)
ProofFrom(layers, i, index) ==
  IF i > Len(layers) THEN <<>>
  ELSE LET layer == layers[i]
           pairIndex == IF index % 2 = 1 THEN index - 1 ELSE index + 1
           here == IF pairIndex < Len(layer) THEN <<layer[pairIndex + 1]>> ELSE <<>>
       IN here \o ProofFrom(layers, i + 1, index \div 2)

TreeGetProof(layers, leaf) ==
  LET index == LeafIndex(layers[1], leaf)
  IN IF index <= -1 THEN <<>> ELSE ProofFrom(layers, 1, index)

\* MerkleTree.verify(proof, targetNode, root) with sortPairs: the proof is
\* folded into the target node, smaller buffer first at every step.
RECURSIVE FoldProof(_, _)
FoldProof(hash, proof) ==
  IF proof = <<>> THEN hash
  ELSE LET data == Head(proof)
           next == IF BufferCompare(hash, data) = -1 THEN HashFn(hash \o data)
                   ELSE HashFn(data \o hash)
       IN FoldProof(next, Tail(proof))

TreeVerify(proof, targetNode, root) ==
  BufferCompare(FoldProof(targetNode, proof), root) = 0

\* ------------------------------------------------- CustomMerkleTree (utils.js)
\* The value of a reference that is null.
Null == <<>>

\* new CustomMerkleTree(values, leafEncoding)
NewTree(values, leafEncoding) ==
  [values |-> values, leafEncoding |-> leafEncoding, layers |-> <<>>,
   hasTree |-> FALSE, leaves |-> <<>>, initialized |-> FALSE]

\* The state of a caller that holds no tree yet.
NoTree == NewTree(<<>>, {})

\* A leaf hash that does not depend on the address.
HashLeafOfNothing(value) ==
  FromHexSlice2(EthersKeccak256(EthersKeccak256(ToHex(<<AbiPad>>))))

\* hashLeaf(value) for the 'address' encoding, the only one buildMerkleTree
\* passes: keccak256(keccak256(abi.encode(address))), as a Buffer.
HashLeaf(value) ==
  LET address == value[1]
      inner == EthersKeccak256(AbiEncodeAddress(address))
      leaf == EthersKeccak256(inner)
  IN FromHexSlice2(leaf)

\* initialize() without the early return, pushing the leaves onto the ones
\* the instance already has.
InitializeAppending(t) ==
  LET leaves == t.leaves \o [i \in 1 .. Len(t.values) |-> HashLeaf(t.values[i])]
  IN [t EXCEPT !.leaves = leaves, !.layers = CreateHashes(leaves),
               !.hasTree = TRUE, !.initialized = TRUE]

\* initialize(): a second call returns the tree as it is.
Initialize(t) ==
  IF t.initialized THEN t
  ELSE LET leaves == [i \in 1 .. Len(t.values) |-> HashLeaf(t.values[i])]
       IN [t EXCEPT !.leaves = leaves, !.layers = CreateHashes(leaves),
                    !.hasTree = TRUE, !.initialized = TRUE]

\* get root()
Root(t) ==
  IF ~t.initialized \/ ~t.hasTree THEN Null ELSE ToHex(GetRoot(t.layers))

\* getProof(index) without the bounds check: an index outside the list
\* yields an empty proof.
GetProofUnchecked(t, index) ==
  IF ~t.initialized
    THEN [throws |-> "Tree not initialized. Call initialize() first.", value |-> <<>>]
  ELSE IF index < 0 \/ index >= Len(t.values)
    THEN [throws |-> "none", value |-> <<>>]
  ELSE LET leaf == t.leaves[index + 1]
           proof == TreeGetProof(t.layers, leaf)
       IN [throws |-> "none", value |-> [i \in 1 .. Len(proof) |-> ToHex(proof[i])]]

\* getProof(index), index 0-based as in the source.  The result is the error
\* thrown ("none" if none) and the proof as hex strings.
GetProof(t, index) ==
  IF ~t.initialized
    THEN [throws |-> "Tree not initialized. Call initialize() first.", value |-> <<>>]
  ELSE IF index < 0 \/ index >= Len(t.values)
    THEN [throws |-> "Index out of bounds", value |-> <<>>]
  ELSE LET leaf == t.leaves[index + 1]
           proof == TreeGetProof(t.layers, leaf)
       IN [throws |-> "none", value |-> [i \in 1 .. Len(proof) |-> ToHex(proof[i])]]

\* verify(proof, root, leaf) on hex strings
Verify(t, proof, root, leaf) ==
  IF ~t.initialized \/ ~t.hasTree THEN FALSE
  ELSE LET proofBuffers == [i \in 1 .. Len(proof) |-> FromHexSlice2(proof[i])]
           leafBuffer == FromHexSlice2(leaf)
           rootBuffer == FromHexSlice2(root)
       IN TreeVerify(proofBuffers, leafBuffer, rootBuffer)

\* v is a string (possibly empty), so that v.slice exists.
IsString(v) == v = <<>> \/ Head(v) # NotAString

\* The error verify(proof, root, leaf) throws, "none" if it returns: on an
\* initialized tree p.slice(2) is evaluated for every proof element, then
\* leaf.slice(2), then root.slice(2), and a value that is not a string has
\* no slice.
VerifyThrows(t, proof, root, leaf) ==
  IF ~t.initialized \/ ~t.hasTree THEN "none"
  ELSE IF \E i \in 1 .. Len(proof) : ~IsString(proof[i]) THEN "TypeError"
  ELSE IF ~IsString(leaf) THEN "TypeError"
  ELSE IF ~IsString(root) THEN "TypeError"
  ELSE "none"

\* wrapAddresses
WrapAddresses(allowedAddrs) ==
  [i \in 1 .. Len(allowedAddrs) |-> <<allowedAddrs[i]>>]

\* buildMerkleTree(allowedAddresses), the tree the awaited promise yields
BuildMerkleTree(allowedAddrs) ==
  Initialize(NewTree(WrapAddresses(allowedAddrs), {"address"}))

\* Array.prototype.findIndex with addr[0] === address: the first position
\* whose string is the same string (same spelling), 0-based, or -1.
FindIndex(wrapped, address) ==
  LET hits == {i \in 1 .. Len(wrapped) : wrapped[i][1] = address}
  IN IF hits = {} THEN -1
     ELSE (CHOOSE i \in hits : \A j \in hits : i <= j) - 1

\* getMerkleProof(tree, address, allowedAddresses)
GetMerkleProof(t, address, allowedAddrs) ==
  GetProof(t, FindIndex(WrapAddresses(allowedAddrs), address))

\* ------------------------------------------ the value an async call returns
\* The value undefined: what reading a property an object does not have
\* yields. Its marker is -6, next to the byte symbols.
Undefined == <<-6>>

\* The Promise an async function returns; v is what its body returns, which
\* only await (or then) hands out.
Promise(v) == [promise |-> TRUE, settled |-> v]

IsPromise(v) == "promise" \in DOMAIN v

\* await v
Await(v) == IF IsPromise(v) THEN v.settled ELSE v

\* buildMerkleTree(allowedAddresses) as an expression: the function is
\* async, so the call evaluates to a Promise of the tree.
BuildMerkleTreeCall(allowedAddrs) == Promise(BuildMerkleTree(allowedAddrs))

\* v.root: the getter of CustomMerkleTree, undefined on a Promise.
RootOf(v) == IF IsPromise(v) THEN Undefined ELSE Root(v)

\* getMerkleProof(v, address, allowedAddresses): findIndex runs first, then
\* v.getProof(index), and a Promise has no getProof to call.
GetMerkleProofOf(v, address, allowedAddrs) ==
  IF IsPromise(v) THEN [throws |-> "TypeError", value |-> <<>>]
  ELSE GetMerkleProof(v, address, allowedAddrs)

\* ------------------------------ CustomMerkleTree over byte arrays (part_001)
\* hexToBytes(hex): the '0x' prefix is removed if it is there, the rest is
\* read two digits a byte.
HexToBytes(hex) ==
  IF hex # <<>> /\ Head(hex) = HexPrefix THEN Tail(hex) ELSE hex

\* bytesToHex(bytes): two hex digits a byte, no prefix.  A byte symbol stands
\* for its two digits.
BytesToHex(bytes) == [i \in 1 .. Len(bytes) |-> bytes[i]]

\* hashLeaf(value), as a Uint8Array
HashLeafBytes(value) ==
  LET address == value[1]
      inner == EthersKeccak256(AbiEncodeAddress(address))
      leaf == EthersKeccak256(inner)
  IN HexToBytes(leaf)

\* initialize(); merkletreejs takes the byte arrays as its leaves.
InitializeBytes(t) ==
  IF t.initialized THEN t
  ELSE LET leaves == [i \in 1 .. Len(t.values) |-> HashLeafBytes(t.values[i])]
       IN [t EXCEPT !.leaves = leaves, !.layers = CreateHashes(leaves),
                    !.hasTree = TRUE, !.initialized = TRUE]

\* get root()
RootBytes(t) ==
  IF ~t.initialized \/ ~t.hasTree THEN Null
  ELSE <<HexPrefix>> \o BytesToHex(GetRoot(t.layers))

\* getProof(index)
GetProofBytes(t, index) ==
  IF ~t.initialized
    THEN [throws |-> "Tree not initialized. Call initialize() first.", value |-> <<>>]
  ELSE IF index < 0 \/ index >= Len(t.values)
    THEN [throws |-> "Index out of bounds", value |-> <<>>]
  ELSE LET leaf == t.leaves[index + 1]
           proof == TreeGetProof(t.layers, leaf)
       IN [throws |-> "none",
           value |-> [i \in 1 .. Len(proof) |-> <<HexPrefix>> \o BytesToHex(proof[i])]]

\* buildMerkleTree(allowedAddresses)
BuildMerkleTreeBytes(allowedAddrs) ==
  InitializeBytes(NewTree(WrapAddresses(allowedAddrs), {"address"}))

\* getMerkleProof(tree, address, allowedAddresses)
GetMerkleProofBytes(t, address, allowedAddrs) ==
  GetProofBytes(t, FindIndex(WrapAddresses(allowedAddrs), address))

\* ----------------- StandardMerkleTree of @openzeppelin/merkle-tree (part_000)
\* standardLeafHash(value, ['address']): keccak256(keccak256(abi.encode(...)))
StandardLeafHash(value) ==
  FromHexSlice2(EthersKeccak256(EthersKeccak256(AbiEncodeAddress(value[1]))))

\* hashPair(a, b): keccak256 of the two nodes, the smaller one first. The
\* hash of a sorted pair is the same for (a, b) and (b, a), so the order of
\* the symbols only settles how that one digest is written.
HashPair(a, b) ==
  IF BufferCompare(a, b) <= 0 THEN Keccak256(a \o b) ELSE Keccak256(b \o a)

\* The accounts in the order of their leaf hashes, smallest first, as
\* Keccak-256 gives it for the Hardhat accounts (address n is account
\* n - 1; accounts 0 and 1 are the two of loadBlockchainData):
\* 0x2086.. (1) < 0x3223.. (3) < 0x895f.. (4) < 0x9b0b.. (2) < 0xc8ed.. (5)
\* < 0xd791.. (0).
DigestOrder == <<2, 4, 5, 3, 6, 1>>

\* Array.prototype.sort with compareBytes on the leaf hashes: e goes behind
\* every element whose hash is not larger (the sort is stable).
RECURSIVE InsertByHash(_, _)
InsertByHash(sorted, e) ==
  LET rank(h) == CHOOSE k \in 1 .. Len(DigestOrder) :
                   StandardLeafHash(<<<<DigestOrder[k], "checksum">>>>) = h
  IN IF sorted = <<>> THEN <<e>>
     ELSE IF rank(Head(sorted).hash) <= rank(e.hash)
       THEN <<Head(sorted)>> \o InsertByHash(Tail(sorted), e)
     ELSE <<e>> \o sorted

RECURSIVE SortByHash(_)
SortByHash(hashed) ==
  IF hashed = <<>> THEN <<>>
  ELSE InsertByHash(SortByHash(SubSeq(hashed, 1, Len(hashed) - 1)),
                    hashed[Len(hashed)])

\* makeMerkleTree(leaves): node i (0-based) of the array of 2n - 1 nodes.
\* The leaves fill the array from its end, leaf j at 2n - 2 - j; node i above
\* them is the hash of its children 2i + 1 and 2i + 2.
RECURSIVE TreeNode(_, _)
TreeNode(leaves, i) ==
  LET size == 2 * Len(leaves) - 1
  IN IF i >= size - Len(leaves) THEN leaves[size - i]
     ELSE HashPair(TreeNode(leaves, 2 * i + 1), TreeNode(leaves, 2 * i + 2))

\* getProof(tree, index) of the library's core: the sibling of the node, then
\* of its parent, up to the root.
RECURSIVE SiblingPath(_, _)
SiblingPath(nodes, index) ==
  IF index <= 0 THEN <<>>
  ELSE LET sibling == IF index % 2 = 1 THEN index + 1 ELSE index - 1
       IN <<nodes[sibling + 1]>> \o SiblingPath(nodes, (index - 1) \div 2)

\* tree.getProof(index) for a number: the bounds check, then the path from
\* the array position of that value's leaf.
StandardGetProof(t, index) ==
  IF index < 0 \/ index >= Len(t.values)
    THEN [throws |-> "Index out of bounds", value |-> <<>>]
  ELSE LET path == SiblingPath(t.tree, t.values[index + 1].treeIndex)
       IN [throws |-> "none", value |-> [i \in 1 .. Len(path) |-> ToHex(path[i])]]

\* buildMerkleTree(allowedAddresses) of part_000: synchronous, the outcome of
\* StandardMerkleTree.of(wrapAddresses(allowedAddresses), ['address']). The
\* leaves are sorted by hash and laid out by makeMerkleTree, node i (0-based)
\* at place i + 1; every value keeps the array position of its leaf. An
\* empty list is refused.
BuildMerkleTreeStandard(allowedAddrs) ==
  LET values == WrapAddresses(allowedAddrs)
  IN IF Len(values) = 0
       THEN [throws |-> "Expected non-zero number of leaves", tree |-> <<>>,
             values |-> <<>>]
     ELSE LET hashed == SortByHash([i \in 1 .. Len(values) |->
                                      [valueIndex |-> i - 1,
                                       hash |-> StandardLeafHash(values[i])]])
              leaves == [j \in 1 .. Len(hashed) |-> hashed[j].hash]
              nodes == [i \in 1 .. (2 * Len(leaves) - 1) |-> TreeNode(leaves, i - 1)]
          IN [throws |-> "none", tree |-> nodes,
              values |-> [i \in 1 .. Len(values) |->
                            [value |-> values[i],
                             treeIndex |-> Len(nodes) -
                               (CHOOSE j \in 1 .. Len(hashed) :
                                  hashed[j].valueIndex = i - 1)]]]

\* getMerkleProof(tree, address, allowedAddresses) of part_000
GetMerkleProofStandard(t, address, allowedAddrs) ==
  StandardGetProof(t, FindIndex(WrapAddresses(allowedAddrs), address))

\* ------------------------------------------- OpenZeppelin MerkleProof
\* _hashPair(a, b): a < b ? keccak256(a ++ b) : keccak256(b ++ a)
OzHashPair(a, b) ==
  IF BufferCompare(a, b) = -1 THEN Keccak256(a \o b) ELSE Keccak256(b \o a)

RECURSIVE OzProcessProof(_, _)
OzProcessProof(proof, computedHash) ==
  IF proof = <<>> THEN computedHash
  ELSE OzProcessProof(Tail(proof), OzHashPair(computedHash, Head(proof)))

\* MerkleProof.verify(proof, root, leaf)
OzVerify(proof, root, leaf) == OzProcessProof(proof, leaf) = root

\* ------------------------------------------------------- NFT.sol: views
\* The leaf the contract derives from an address.
ContractLeaf(a) == Keccak256(AbiEncodePacked(a))

\* isAddressAllowed(_address, _merkleProof)
IsAddressAllowed(a, merkleProof) ==
  LET leaf == ContractLeaf(a)
  IN OzVerify(merkleProof, allowedAddressesRoot, leaf)

\* The proof is checked, but not against the leaf of msg.sender.
OnlyAllowedAnyAddress(sender, merkleProof) ==
  \E a \in Addr : IsAddressAllowed(a, merkleProof)

\* The condition of modifier onlyAllowedAddress for msg.sender
OnlyAllowedAddress(sender, merkleProof) ==
  IsAddressAllowed(sender, merkleProof) \/ allowedAddresses[sender]

\* ERC721Enumerable.totalSupply()
TotalSupply == Len(allTokens)

\* ERC721.balanceOf(owner)
BalanceOf(o) == nftBalance[o]

\* ERC721Enumerable.tokenOfOwnerByIndex(owner, index), index 0-based
TokenOfOwnerByIndex(o, index) == ownedTokens[o][index + 1]

\* walletOfOwner(_owner)
WalletOfOwner(o) ==
  LET ownerTokenCount == BalanceOf(o)
  IN [i \in 1 .. ownerTokenCount |-> TokenOfOwnerByIndex(o, i - 1)]

\* ------------------------------------------------ NFT.sol: transactions
nftVars ==
  <<cost, maxSupply, allowMintingOn, maxMintAmountPerTx, paused,
    allowedAddressesRoot, allowedAddresses, owner,
    tokenOwner, allTokens, ownedTokens, nftBalance, balance, wallet, now, lastTx>>

\* What a transaction can change and a revert restores.
chain ==
  <<cost, maxSupply, allowMintingOn, maxMintAmountPerTx, paused,
    allowedAddressesRoot, allowedAddresses, owner,
    tokenOwner, allTokens, ownedTokens, nftBalance, balance, wallet>>

tokenVars == <<tokenOwner, allTokens, ownedTokens, nftBalance>>
configVars == <<maxSupply, allowMintingOn, maxMintAmountPerTx, allowedAddresses, owner>>

NoEvent == [name |-> "none", amount |-> 0, account |-> 0, root |-> <<>>]

\* A transaction and its receipt: the function called, msg.sender, the
\* arguments and msg.value of a mint, "ok" or the revert reason, and the
\* event emitted.
NoTx ==
  [fn |-> "none", sender |-> 0, amount |-> 0, proof |-> <<>>, value |-> 0,
   status |-> "none", event |-> NoEvent]

\* The account that deploys the contract.
Deployer == 1
\* The second account on the allowlist.
Minter == 2

\* The token storage after _safeMint(to, tokenId) on token storage st; err
\* is set when the token already exists (the call reverts).
SafeMint(st, to, tokenId) ==
  IF st.err \/ tokenId \in DOMAIN st.tokenOwner THEN [st EXCEPT !.err = TRUE]
  ELSE [st EXCEPT !.tokenOwner = (tokenId :> to) @@ st.tokenOwner,
                  !.allTokens = Append(st.allTokens, tokenId),
                  !.ownedTokens = [st.ownedTokens EXCEPT ![to] = Append(@, tokenId)],
                  !.nftBalance = [st.nftBalance EXCEPT ![to] = @ + 1]]

\* the loop with ids counted from supply instead of supply + 1
RECURSIVE MintLoopFromSupply(_, _, _, _, _)
MintLoopFromSupply(st, to, supply, i, mintAmount) ==
  IF i > mintAmount THEN st
  ELSE MintLoopFromSupply(SafeMint(st, to, supply + i - 1), to, supply, i + 1, mintAmount)

\* for (i = from; i <= _mintAmount; i++) _safeMint(msg.sender, supply + i)
RECURSIVE MintLoop(_, _, _, _, _)
MintLoop(st, to, supply, i, mintAmount) ==
  IF i > mintAmount THEN st
  ELSE MintLoop(SafeMint(st, to, supply + i), to, supply, i + 1, mintAmount)

\* mint without its whenNotPaused modifier
NeverPaused == TRUE

\* modifier whenNotPaused
WhenNotPaused == ~paused

\* The requires of the body of mint, in order.
RequireMintingTime == now >= allowMintingOn
RequireAmountPositive(mintAmount) == mintAmount > 0
RequireAmountPerTx(mintAmount) == mintAmount <= maxMintAmountPerTx
\* the price of one token asked, whatever the amount
RequirePaymentOfOne(mintAmount, value) == value >= cost
RequirePayment(mintAmount, value) == value >= cost * mintAmount
\* the supply before the mint compared with the cap
RequireSupplyBefore(supply, mintAmount) == supply < maxSupply
RequireSupply(supply, mintAmount) == supply + mintAmount <= maxSupply

\* The first require of mint (modifiers first, then the body) that fails,
\* "ok" if none does.
MintCheck(sender, mintAmount, merkleProof, value) ==
  IF ~WhenNotPaused THEN "Contract is paused"
  ELSE IF ~OnlyAllowedAddress(sender, merkleProof) THEN "Address not in allowed list"
  ELSE IF ~RequireMintingTime THEN "Minting not allowed yet"
  ELSE IF ~RequireAmountPositive(mintAmount) THEN "Mint amount must be greater than 0"
  ELSE IF ~RequireAmountPerTx(mintAmount) THEN "Mint amount exceeds max per transaction"
  ELSE IF ~RequirePayment(mintAmount, value) THEN "Insufficient funds"
  ELSE IF ~RequireSupply(TotalSupply, mintAmount) THEN "Max supply exceeded"
  ELSE "ok"

Reverted(fn, sender, reason) ==
  [NoTx EXCEPT !.fn = fn, !.sender = sender, !.status = reason]

\* Ownable.onlyOwner
OnlyOwner(sender) == owner = sender

NotOwner == "Ownable: caller is not the owner"

\* mint(_mintAmount, _merkleProof) sent by sender with msg.value = value
Mint(sender, mintAmount, merkleProof, value) ==
  LET check == MintCheck(sender, mintAmount, merkleProof, value)
      supply == TotalSupply
      st0 == [tokenOwner |-> tokenOwner, allTokens |-> allTokens,
              ownedTokens |-> ownedTokens, nftBalance |-> nftBalance, err |-> FALSE]
      st == MintLoop(st0, sender, supply, 1, mintAmount)
      call == [NoTx EXCEPT !.fn = "mint", !.sender = sender, !.amount = mintAmount,
                           !.proof = merkleProof, !.value = value]
  IN IF check # "ok"
       THEN /\ lastTx' = [call EXCEPT !.status = check]
            /\ UNCHANGED chain
     ELSE IF st.err
       THEN /\ lastTx' = [call EXCEPT !.status = "ERC721: token already minted"]
            /\ UNCHANGED chain
     ELSE /\ tokenOwner' = st.tokenOwner
          /\ allTokens' = st.allTokens
          /\ ownedTokens' = st.ownedTokens
          /\ nftBalance' = st.nftBalance
          /\ balance' = balance + value
          /\ wallet' = [wallet EXCEPT ![sender] = @ - value]
          /\ lastTx' = [call EXCEPT !.status = "ok",
                          !.event = [NoEvent EXCEPT !.name = "Mint", !.amount = mintAmount,
                                                    !.account = sender]]
          /\ UNCHANGED <<cost, paused, allowedAddressesRoot, configVars>>

\* pause()
Pause(sender) ==
  IF ~OnlyOwner(sender)
    THEN lastTx' = Reverted("pause", sender, NotOwner) /\ UNCHANGED chain
  ELSE /\ paused' = TRUE
       /\ lastTx' = [NoTx EXCEPT !.fn = "pause", !.sender = sender, !.status = "ok",
                       !.event = [NoEvent EXCEPT !.name = "Paused", !.account = sender]]
       /\ UNCHANGED <<cost, allowedAddressesRoot, configVars, tokenVars, balance, wallet>>

\* unpause()
Unpause(sender) ==
  IF ~OnlyOwner(sender)
    THEN lastTx' = Reverted("unpause", sender, NotOwner) /\ UNCHANGED chain
  ELSE /\ paused' = FALSE
       /\ lastTx' = [NoTx EXCEPT !.fn = "unpause", !.sender = sender, !.status = "ok",
                       !.event = [NoEvent EXCEPT !.name = "Unpaused", !.account = sender]]
       /\ UNCHANGED <<cost, allowedAddressesRoot, configVars, tokenVars, balance, wallet>>

\* withdraw() reading address(this).balance for the event after the transfer
WithdrawEventAfterTransfer(sender) ==
  IF ~OnlyOwner(sender)
    THEN lastTx' = Reverted("withdraw", sender, NotOwner) /\ UNCHANGED chain
  ELSE /\ wallet' = [wallet EXCEPT ![sender] = @ + balance]
       /\ balance' = 0
       /\ lastTx' = [NoTx EXCEPT !.fn = "withdraw", !.sender = sender, !.status = "ok",
                       !.event = [NoEvent EXCEPT !.name = "Withdraw", !.amount = 0,
                                                 !.account = sender]]
       /\ UNCHANGED <<cost, paused, allowedAddressesRoot, configVars, tokenVars>>

\* withdraw(): the whole contract balance goes to msg.sender
Withdraw(sender) ==
  IF ~OnlyOwner(sender)
    THEN lastTx' = Reverted("withdraw", sender, NotOwner) /\ UNCHANGED chain
  ELSE /\ wallet' = [wallet EXCEPT ![sender] = @ + balance]
       /\ balance' = 0
       /\ lastTx' = [NoTx EXCEPT !.fn = "withdraw", !.sender = sender, !.status = "ok",
                       !.event = [NoEvent EXCEPT !.name = "Withdraw", !.amount = balance,
                                                 !.account = sender]]
       /\ UNCHANGED <<cost, paused, allowedAddressesRoot, configVars, tokenVars>>

\* setCost without its onlyOwner modifier
SetCostByAnyone(sender, newCost) ==
  /\ cost' = newCost
  /\ lastTx' = [NoTx EXCEPT !.fn = "setCost", !.sender = sender, !.status = "ok"]
  /\ UNCHANGED <<paused, allowedAddressesRoot, configVars, tokenVars, balance, wallet>>

\* setCost(_newCost)
SetCost(sender, newCost) ==
  IF ~OnlyOwner(sender)
    THEN lastTx' = Reverted("setCost", sender, NotOwner) /\ UNCHANGED chain
  ELSE /\ cost' = newCost
       /\ lastTx' = [NoTx EXCEPT !.fn = "setCost", !.sender = sender, !.status = "ok"]
       /\ UNCHANGED <<paused, allowedAddressesRoot, configVars, tokenVars, balance, wallet>>

\* setAllowedAddressesRoot(_root)
SetAllowedAddressesRoot(sender, root) ==
  IF ~OnlyOwner(sender)
    THEN lastTx' = Reverted("setAllowedAddressesRoot", sender, NotOwner) /\ UNCHANGED chain
  ELSE /\ allowedAddressesRoot' = root
       /\ lastTx' = [NoTx EXCEPT !.fn = "setAllowedAddressesRoot", !.sender = sender,
                       !.status = "ok",
                       !.event = [NoEvent EXCEPT !.name = "AllowedAddressesRootSet",
                                                 !.root = root]]
       /\ UNCHANGED <<cost, paused, configVars, tokenVars, balance, wallet>>

\* ------------------------------------------------- inputs of the contract
\* An address string in its checksummed spelling.
Checksummed(a) == <<a, "checksum">>

\* The allowlists the owner commits to: the two accounts of the tests
\* (deployer, minter); the other accounts are on none.
CommitLists ==
  { <<Checksummed(Deployer), Checksummed(Minter)>> }

\* ethers' encoding of a 32-byte hex string as a bytes32 argument
AbiBytes32(hex) == Tail(hex)

\* tree.root of the tree utils.js builds for L, as a bytes32 argument
UtilsRoot(L) == AbiBytes32(Root(BuildMerkleTree(L)))

\* getMerkleProof(tree, a, L) of utils.js, as a bytes32[] argument
UtilsProof(L, a) ==
  LET p == GetMerkleProof(BuildMerkleTree(L), a, L).value
  IN [i \in 1 .. Len(p) |-> AbiBytes32(p[i])]

\* A tree over the leaves the contract derives (keccak256 of the packed
\* address), with sorted pairs and odd nodes promoted: what a tool written
\* against isAddressAllowed would commit to.
OnChainLayers(L) == CreateHashes([i \in 1 .. Len(L) |-> ContractLeaf(L[i][1])])
OnChainRoot(L) == GetRoot(OnChainLayers(L))
OnChainProof(L, i) == ProofFrom(OnChainLayers(L), 1, i - 1)

RootInputs ==
  {<<ZeroWord>>} \cup {UtilsRoot(L) : L \in CommitLists}
                 \cup {OnChainRoot(L) : L \in CommitLists}

ProofInputs ==
  {<<>>} \cup UNION {{UtilsProof(L, L[i]) : i \in 1 .. Len(L)} : L \in CommitLists}
         \cup UNION {{OnChainProof(L, i) : i \in 1 .. Len(L)} : L \in CommitLists}

\* ------------------------------------------------ the callers of utils.js
treeVars == <<allowlist, tree, ret>>

\* Every allowlist of at most MaxLen address strings.
Lists == SeqsUpTo(AddrStr, MaxLen)

NoAddress == <<0, "none">>

NoRet ==
  [op |-> "none", impl |-> "none", address |-> NoAddress, index |-> 0,
   throws |-> "none",
   proof |-> <<>>, root |-> Null, leaf |-> Null, ok |-> FALSE]

\* '0x' + hashLeaf([a]).toString('hex'): the leaf of address string a as the
\* hex string verify() takes.
LeafHex(a) == ToHex(HashLeaf(<<a>>))

\* The proofs a caller may hand to verify(): the ones the tree gives out,
\* the empty one, damaged ones (reversed, last element dropped), and
\* malformed ones (hex without its '0x' prefix, an element that is not a
\* string).
ProofChoices(t) ==
  LET given == {GetProof(t, i).value : i \in 0 .. (Len(t.values) - 1)}
  IN given \cup {<<>>} \cup {[i \in 1 .. Len(p) |-> p[Len(p) + 1 - i]] : p \in given}
           \cup {SubSeq(p, 1, Len(p) - 1) : p \in given \ {<<>>}}
           \cup {[i \in 1 .. Len(p) |-> Tail(p[i])] : p \in given}
           \cup {<<<<NotAString>>>>}

InitTree ==
  /\ allowlist = <<>>
  /\ tree = NoTree
  /\ ret = NoRet

\* tree = await buildMerkleTree(L): a behaviour follows one tree instance
\* from the call that builds it.
CallBuildMerkleTree ==
  /\ ~tree.initialized
  /\ ret.op = "none"
  /\ \E L \in Lists :
       /\ allowlist' = L
       /\ tree' = BuildMerkleTree(L)
       /\ ret' = [NoRet EXCEPT !.op = "buildMerkleTree", !.root = Root(tree')]
       /\ UNCHANGED <<nftVars, form>>

\* The implementations of buildMerkleTree in the repository: utils.js and
\* part_001 over merkletreejs, part_000 over StandardMerkleTree.
Impls == {"utils.js", "part_001", "part_000"}

\* What a caller that awaits buildMerkleTree(L) of implementation impl and
\* then reads the root and asks getMerkleProof for address gets: the error
\* thrown ("none" if none), the root and the proof.
BuildWith(impl, L, address) ==
  IF impl = "utils.js"
    THEN LET t == BuildMerkleTree(L)
             r == GetMerkleProof(t, address, L)
         IN [throws |-> r.throws, root |-> Root(t), proof |-> r.value]
  ELSE IF impl = "part_001"
    THEN LET t == BuildMerkleTreeBytes(L)
             r == GetMerkleProofBytes(t, address, L)
         IN [throws |-> r.throws, root |-> RootBytes(t), proof |-> r.value]
  ELSE LET t == BuildMerkleTreeStandard(L)
           r == GetMerkleProofStandard(t, address, L)
       IN IF t.throws # "none"
            THEN [throws |-> t.throws, root |-> Null, proof |-> <<>>]
          ELSE [throws |-> r.throws, root |-> ToHex(t.tree[1]), proof |-> r.value]

\* tree = buildMerkleTree(L) with no await, then tree.root and
\* getMerkleProof(tree, address, L), as the test setup does. utils.js and
\* part_001 are async and hand out a Promise; part_000 hands out its tree.
CallBuildNoAwait ==
  /\ ~tree.initialized
  /\ ret.op = "none"
  /\ \E impl \in Impls, L \in Lists, address \in AddrStr :
       /\ IF impl = "part_000"
            THEN LET b == BuildWith(impl, L, address)
                 IN ret' = [NoRet EXCEPT !.op = "buildNoAwait", !.impl = impl,
                                         !.address = address, !.root = b.root,
                                         !.throws = b.throws, !.proof = b.proof]
          ELSE LET v == BuildMerkleTreeCall(L)
                   r == GetMerkleProofOf(v, address, L)
               IN ret' = [NoRet EXCEPT !.op = "buildNoAwait", !.impl = impl,
                                       !.address = address, !.root = RootOf(v),
                                       !.throws = r.throws, !.proof = r.value]
       /\ UNCHANGED <<allowlist, tree, nftVars, form>>

\* tree.initialize() on a tree the caller holds
CallInitialize ==
  /\ tree.initialized
  /\ ret.op = "none"
  /\ tree' = Initialize(tree)
  /\ ret' = [NoRet EXCEPT !.op = "initialize", !.root = Root(tree')]
  /\ UNCHANGED <<allowlist, nftVars, form>>

\* getMerkleProof(tree, address, allowlist)
CallGetMerkleProof ==
  /\ tree.initialized
  /\ ret.op = "none"
  /\ \E address \in AddrStr :
       /\ LET r == GetMerkleProof(tree, address, allowlist)
          IN ret' = [NoRet EXCEPT !.op = "getMerkleProof", !.address = address,
                                  !.throws = r.throws, !.proof = r.value]
       /\ UNCHANGED <<allowlist, tree, nftVars, form>>

\* A second tree is built from the list the caller holds, by one of the
\* implementations, and asked for its root and for the proof of an address.
CallBuildAgain ==
  /\ tree.initialized
  /\ ret.op = "none"
  /\ \E impl \in Impls, address \in AddrStr :
       /\ LET b == BuildWith(impl, allowlist, address)
          IN ret' = [NoRet EXCEPT !.op = "buildAgain", !.impl = impl,
                                  !.address = address, !.root = b.root,
                                  !.throws = b.throws, !.proof = b.proof]
       /\ UNCHANGED <<allowlist, tree, nftVars, form>>

\* tree.getProof(index), for the indices around the positions of the list
CallGetProof ==
  /\ tree.initialized
  /\ ret.op = "none"
  /\ \E index \in -1 .. MaxLen :
       /\ LET r == GetProof(tree, index)
          IN ret' = [NoRet EXCEPT !.op = "getProof", !.index = index,
                                  !.throws = r.throws, !.proof = r.value]
       /\ UNCHANGED <<allowlist, tree, nftVars, form>>

\* tree.verify(proof, root, leaf)
CallVerify ==
  /\ tree.initialized
  /\ ret.op = "none"
  /\ \E proof \in ProofChoices(tree), root \in {Root(tree), ToHex(<<ZeroWord>>)} \ {Null},
        a \in AddrStr :
       /\ LET throws == VerifyThrows(tree, proof, root, LeafHex(a))
          IN ret' = [NoRet EXCEPT !.op = "verify", !.address = a, !.proof = proof,
                                  !.root = root, !.leaf = LeafHex(a),
                                  !.throws = throws,
                                  !.ok = IF throws = "none"
                                           THEN Verify(tree, proof, root, LeafHex(a))
                                         ELSE FALSE]
       /\ UNCHANGED <<allowlist, tree, nftVars, form>>

\* The caller has taken the outcome of its last call and is ready for the
\* next one.
Return ==
  /\ ret.op # "none"
  /\ ret' = NoRet
  /\ UNCHANGED <<allowlist, tree, nftVars, form>>

NextTree ==
  \/ Return
  \/ CallBuildMerkleTree
  \/ CallBuildNoAwait
  \/ CallInitialize
  \/ CallGetMerkleProof
  \/ CallBuildAgain
  \/ CallGetProof
  \/ CallVerify

\* --------------------------------------------------------- specifications
\* The state the constructor leaves: its arguments stored, nothing minted,
\* not paused, allowedAddressesRoot never assigned.
Deployed(_cost, _maxSupply, _allowMintingOn, _maxMintAmountPerTx) ==
  /\ cost = _cost
  /\ maxSupply = _maxSupply
  /\ allowMintingOn = _allowMintingOn
  /\ maxMintAmountPerTx = _maxMintAmountPerTx
  /\ paused = FALSE
  /\ allowedAddressesRoot = <<ZeroWord>>
  /\ allowedAddresses = [a \in Addr |-> FALSE]
  /\ owner = Deployer
  /\ tokenOwner = <<>>
  /\ allTokens = <<>>
  /\ ownedTokens = [a \in Addr |-> <<>>]
  /\ nftBalance = [a \in Addr |-> 0]
  /\ balance = 0

InitNFT ==
  /\ Deployed(MaxCost, MaxSupply, MaxTime, MaxMintAmountPerTx)
  /\ wallet = [a \in Addr |-> InitFunds]
  /\ now = 0
  /\ lastTx = NoTx

TxMint ==
  /\ lastTx.fn = "none"
  /\ \E sender \in Addr, mintAmount \in 0 .. (MaxMintAmountPerTx + 1),
        proof \in ProofInputs :
       \E value \in 0 .. wallet[sender] :
         /\ Mint(sender, mintAmount, proof, value)
         /\ UNCHANGED <<now, treeVars, form>>

TxPause ==
  /\ lastTx.fn = "none"
  /\ \E sender \in Addr : Pause(sender) /\ UNCHANGED <<now, treeVars, form>>

TxUnpause ==
  /\ lastTx.fn = "none"
  /\ \E sender \in Addr : Unpause(sender) /\ UNCHANGED <<now, treeVars, form>>

TxWithdraw ==
  /\ lastTx.fn = "none"
  /\ \E sender \in Addr : Withdraw(sender) /\ UNCHANGED <<now, treeVars, form>>

TxSetCost ==
  /\ lastTx.fn = "none"
  /\ \E sender \in Addr, newCost \in 0 .. MaxCost :
       SetCost(sender, newCost) /\ UNCHANGED <<now, treeVars, form>>

TxSetAllowedAddressesRoot ==
  /\ lastTx.fn = "none"
  /\ \E sender \in Addr, root \in RootInputs :
       /\ SetAllowedAddressesRoot(sender, root)
       /\ UNCHANGED <<now, treeVars, form>>

\* The block time moves on.
Tick ==
  /\ lastTx.fn = "none"
  /\ now < MaxTime
  /\ now' = now + 1
  /\ UNCHANGED <<chain, lastTx, treeVars, form>>

\* The receipt of the last transaction has been read.
TxReturn ==
  /\ lastTx.fn # "none"
  /\ lastTx' = NoTx
  /\ UNCHANGED <<chain, now, treeVars, form>>

\* ------------------------------------------ the mint form (Mint inside App)
\* The message of an Error, as the phrases it is made of.
Includes(message, part) == \E i \in 1 .. Len(message) : message[i] = part

NoError == <<>>

\* The message ethers gives the error of a call that reverts with a reason.
RevertMessage(reason) ==
  <<"VM Exception while processing transaction: reverted with reason string '",
    reason, "'">>

\* allowedAddrs of loadBlockchainData: the first two Hardhat accounts, as
\* the checksummed strings the source spells out.
AllowedAddrs == <<Checksummed(Deployer), Checksummed(Minter)>>

\* The roots the owner commits for the list of the page: the root utils.js
\* gives for it, and the root under which the contract accepts the proof
\* the form sends for the minter.
FormRoots ==
  {UtilsRoot(AllowedAddrs),
   OzProcessProof(UtilsProof(AllowedAddrs, Checksummed(Minter)), ContractLeaf(Minter))}

\* useState of App and of Mint, with neither loadBlockchainData (load) nor
\* mintHandler (pc) running and no call of the effect of Mint outstanding
\* (fetch); the locals of mintHandler are unset.
NoForm ==
  [load |-> "none", isLoading |-> TRUE, account |-> NoAddress,
   revealTime |-> 0, maxSupply |-> 0, totalSupply |-> 0, cost |-> 0,
   balance |-> 0, allowedAddresses |-> <<>>,
   fetch |-> "none", isWaiting |-> FALSE, maxMintAmount |-> 1, mintAmount |-> 1,
   pc |-> "idle", submitted |-> 1, totalCost |-> 0, userAddress |-> NoAddress,
   proof |-> <<>>, error |-> NoError, alert |-> "none"]

InitForm == form = NoForm

\* App's effect: isLoading is (again) true, loadBlockchainData is called and
\* runs to its first await, the request for the accounts of the wallet.
LoadBlockchainData ==
  /\ form.isLoading
  /\ form.load = "none"
  /\ form' = [form EXCEPT !.load = "accounts"]
  /\ UNCHANGED <<treeVars, nftVars>>

\* eth_requestAccounts settles: setAccount with the checksummed first
\* account, then nft.allowMintingOn() is called; or the user refuses, the
\* rejection leaves loadBlockchainData and the page stays loading.
LoadAccounts ==
  /\ form.load = "accounts"
  /\ \/ \E a \in Addr :
          form' = [form EXCEPT !.account = Checksummed(a), !.load = "allowMintingOn"]
     \/ form' = [form EXCEPT !.load = "rejected"]
  /\ UNCHANGED <<treeVars, nftVars>>

\* nft.allowMintingOn() settles: setRevealTime(allowMintingOn.toString() +
\* '000'), the number parseInt reads from it being a thousand times the
\* time; nft.maxSupply() is called.
LoadAllowMintingOn ==
  /\ form.load = "allowMintingOn"
  /\ form' = [form EXCEPT !.revealTime = 1000 * allowMintingOn, !.load = "maxSupply"]
  /\ UNCHANGED <<treeVars, nftVars>>

\* setMaxSupply(await nft.maxSupply()); nft.totalSupply() is called.
LoadMaxSupply ==
  /\ form.load = "maxSupply"
  /\ form' = [form EXCEPT !.maxSupply = maxSupply, !.load = "totalSupply"]
  /\ UNCHANGED <<treeVars, nftVars>>

\* setTotalSupply(await nft.totalSupply()); nft.cost() is called.
LoadTotalSupply ==
  /\ form.load = "totalSupply"
  /\ form' = [form EXCEPT !.totalSupply = TotalSupply, !.load = "cost"]
  /\ UNCHANGED <<treeVars, nftVars>>

\* setCost(await nft.cost()); nft.balanceOf(account) is called.
LoadCost ==
  /\ form.load = "cost"
  /\ form' = [form EXCEPT !.cost = cost, !.load = "balance"]
  /\ UNCHANGED <<treeVars, nftVars>>

\* setBalance(await nft.balanceOf(account)), setAllowedAddresses(allowedAddrs),
\* setIsLoading(false): Mint is mounted, with fresh state, and its effect
\* calls nft.maxMintAmountPerTx().
LoadBalance ==
  /\ form.load = "balance"
  /\ form' = [form EXCEPT !.balance = BalanceOf(form.account[1]),
                          !.allowedAddresses = AllowedAddrs,
                          !.isLoading = FALSE, !.load = "none",
                          !.fetch = "pending", !.isWaiting = FALSE,
                          !.maxMintAmount = 1, !.mintAmount = 1]
  /\ UNCHANGED <<treeVars, nftVars>>

\* The effect of Mint: nft.maxMintAmountPerTx() settles while Mint is
\* mounted, setMaxMintAmount(maxAmount.toNumber()); or the call fails, which
\* is logged, and maxMintAmount stays 1.
GetMaxMintAmount ==
  /\ ~form.isLoading
  /\ form.fetch = "pending"
  /\ \/ form' = [form EXCEPT !.maxMintAmount = maxMintAmountPerTx, !.fetch = "none"]
     \/ form' = [form EXCEPT !.fetch = "none"]
  /\ UNCHANGED <<treeVars, nftVars>>

\* The select of the form: setMintAmount(parseInt(e.target.value)), one of
\* the options 1 .. maxMintAmount. The select is there whenever Mint is,
\* also while mintHandler runs.
SetMintAmount ==
  /\ ~form.isLoading
  /\ \E amount \in 1 .. form.maxMintAmount :
       /\ amount # form.mintAmount
       /\ form' = [form EXCEPT !.mintAmount = amount]
       /\ UNCHANGED <<treeVars, nftVars>>

\* The form is submitted: it is shown (not loading) with its button (not
\* waiting). mintHandler runs to its first await: setIsWaiting(true),
\* provider.getSigner(). The handler keeps the mintAmount of the render it
\* was made in.
MintHandler ==
  /\ ~form.isLoading
  /\ ~form.isWaiting
  /\ form.pc = "idle"
  /\ form' = [form EXCEPT !.isWaiting = TRUE, !.pc = "getSigner",
                          !.submitted = form.mintAmount, !.alert = "none"]
  /\ UNCHANGED <<treeVars, nftVars>>

\* await provider.getSigner() settles; totalCost = cost.mul(mintAmount), of
\* the cost App read and the mintAmount the handler keeps;
\* signer.getAddress() is called.
MintGetSigner ==
  /\ form.pc = "getSigner"
  /\ form' = [form EXCEPT !.totalCost = form.cost * form.submitted,
                          !.pc = "getAddress"]
  /\ UNCHANGED <<treeVars, nftVars>>

\* await signer.getAddress() settles with the checksummed address of an
\* account of the wallet, the inputs are checked (!allowedAddresses ||
\* !userAddress: the array App passes is truthy, also an empty one, and so is
\* an address string) and buildMerkleTree is called; or getAddress rejects,
\* the wallet having no account.
MintGetAddress ==
  /\ form.pc = "getAddress"
  /\ \/ \E a \in Addr :
          form' = IF Checksummed(a) = NoAddress
                    THEN [form EXCEPT !.userAddress = Checksummed(a),
                                      !.error = <<"Missing allowed addresses or user address">>,
                                      !.pc = "catch"]
                  ELSE [form EXCEPT !.userAddress = Checksummed(a), !.pc = "build"]
     \/ form' = [form EXCEPT !.error = <<"unknown account #0">>, !.pc = "catch"]
  /\ UNCHANGED <<treeVars, nftVars>>

\* tree = await buildMerkleTree(L); getMerkleProof(tree, a, L), for the list
\* of the page and every address a wallet gives: the outcome depends on
\* nothing else, so it is tabulated once, as pairs of call and outcome.
ProofTable ==
  {<<c, GetMerkleProofOf(Await(BuildMerkleTreeCall(c[1])), c[2], c[1])>> :
     c \in {AllowedAddrs} \X {Checksummed(a) : a \in Addr}}

ProofLookup(L, a) == (CHOOSE e \in ProofTable : e[1] = <<L, a>>)[2]

\* await buildMerkleTree(allowedAddresses) settles;
\* getMerkleProof(tree, userAddress, allowedAddresses) runs and, unless it
\* throws, nft.connect(signer).mint(...) is called.
MintBuildProof ==
  /\ form.pc = "build"
  /\ \E r \in {ProofLookup(form.allowedAddresses, form.userAddress)} :
       form' = IF r.throws # "none"
                 THEN [form EXCEPT !.error = <<r.throws>>, !.pc = "catch"]
               ELSE [form EXCEPT !.proof = r.value, !.pc = "send"]
  /\ UNCHANGED <<treeVars, nftVars>>

\* The bytes32[] argument ethers makes of the proof.
ProofArgument(proof) == [i \in 1 .. Len(proof) |-> AbiBytes32(proof[i])]

\* The promise of nft.connect(signer).mint(mintAmount, proof, { value:
\* totalCost }) settles: the call is tried against the chain as it is (gas
\* estimation), which rejects with the revert reason or for lack of funds;
\* then the user signs or rejects in the wallet.
MintSend ==
  /\ form.pc = "send"
  /\ LET check == MintCheck(form.userAddress[1], form.submitted,
                            ProofArgument(form.proof), form.totalCost)
     IN IF check # "ok"
          THEN form' = [form EXCEPT !.error = RevertMessage(check), !.pc = "catch"]
        ELSE IF form.totalCost > wallet[form.userAddress[1]]
          THEN form' = [form EXCEPT !.error = <<"insufficient funds for intrinsic transaction cost">>,
                                    !.pc = "catch"]
        ELSE \/ form' = [form EXCEPT !.pc = "wait"]
             \/ form' = [form EXCEPT !.error = <<"user rejected transaction">>,
                                     !.pc = "catch"]
  /\ UNCHANGED <<treeVars, nftVars>>

\* await transaction.wait(): the transaction is mined on the chain as it is
\* by then, and wait() rejects if it reverted.
MintWait ==
  /\ form.pc = "wait"
  /\ Mint(form.userAddress[1], form.submitted, ProofArgument(form.proof), form.totalCost)
  /\ form' = IF lastTx'.status = "ok" THEN [form EXCEPT !.pc = "finish"]
             ELSE [form EXCEPT !.error = <<"transaction failed">>, !.pc = "catch"]
  /\ UNCHANGED <<now, treeVars>>

\* A try without its catch: the error leaves the handler, and the statements
\* after the try are not reached.
MintCatchRethrows ==
  /\ form.pc = "catch"
  /\ form' = [form EXCEPT !.pc = "rejected"]
  /\ UNCHANGED <<treeVars, nftVars>>

\* The catch block: console.error, then one of the two alerts. window.alert
\* is a modal dialog: the call returns when the user closes it, so the
\* handler is inside the catch block, with the dialog open, until MintFinish.
MintCatch ==
  /\ form.pc = "catch"
  /\ form' = [form EXCEPT
                !.alert = IF Includes(form.error, "Address not in allowed list")
                            THEN "Your address is not in the allowed list"
                          ELSE "User rejected or transaction reverted",
                !.pc = "finish"]
  /\ UNCHANGED <<treeVars, nftVars>>

\* The statements after the try: setIsWaiting(false), setIsLoading(true).
\* After the catch block they run when the user has closed the alert (then
\* form.alert is not "none"); after a confirmed transaction they run at once.
\* The locals of the handler are gone when it returns, and so is the state
\* of Mint, which App no longer renders; a call of its effect that is still
\* outstanding settles unheard.
MintFinish ==
  /\ form.pc = "finish"
  /\ form' = [form EXCEPT !.isWaiting = FALSE, !.isLoading = TRUE, !.pc = "idle",
                          !.fetch = "none", !.maxMintAmount = 1, !.mintAmount = 1,
                          !.submitted = 1, !.totalCost = 0,
                          !.userAddress = NoAddress, !.proof = <<>>,
                          !.error = NoError]
  /\ UNCHANGED <<treeVars, nftVars>>

\* The owner commits a root for the list of the page.
OwnerCommitsRoot ==
  /\ lastTx.fn = "none"
  /\ \E root \in FormRoots :
       /\ SetAllowedAddressesRoot(owner, root)
       /\ UNCHANGED <<now, treeVars, form>>

\* The owner pauses the contract, or lets it run again.
OwnerPauses ==
  /\ lastTx.fn = "none"
  /\ IF paused THEN Unpause(owner) ELSE Pause(owner)
  /\ UNCHANGED <<now, treeVars, form>>

\* The owner sets another price: the one of the deployment or one above it.
OwnerSetsCost ==
  /\ lastTx.fn = "none"
  /\ \E newCost \in {MaxCost, MaxCost + 1} :
       /\ newCost # cost
       /\ SetCost(owner, newCost)
       /\ UNCHANGED <<now, treeVars, form>>

\* The steps of mintHandler that the page runs by itself once the step before
\* them is over: the await of the synchronous provider.getSigner(), the await
\* of the local buildMerkleTree and getMerkleProof, the catch block up to its
\* alert, and the two statements after the try when no alert is open (the
\* transaction was confirmed). The other steps wait for somebody else:
\* signer.getAddress() for the wallet's answer, mint() for the user to sign or
\* reject, transaction.wait() for the transaction to be mined, and the
\* statements after a catch block for the user to close the alert; the
\* handler sets no timeout on any of them.
MintLocalStep ==
  \/ MintGetSigner
  \/ MintBuildProof
  \/ MintCatch
  \/ form.alert = "none" /\ MintFinish

NextForm ==
  \/ LoadBlockchainData
  \/ LoadAccounts
  \/ LoadAllowMintingOn
  \/ LoadMaxSupply
  \/ LoadTotalSupply
  \/ LoadCost
  \/ LoadBalance
  \/ GetMaxMintAmount
  \/ SetMintAmount
  \/ MintHandler
  \/ MintGetSigner
  \/ MintGetAddress
  \/ MintBuildProof
  \/ MintSend
  \/ MintWait
  \/ MintCatch
  \/ MintFinish
  \/ OwnerCommitsRoot
  \/ OwnerPauses
  \/ OwnerSetsCost
  \/ Tick
  \/ TxReturn

vars == <<allowlist, tree, ret, nftVars, form>>

\* The contract and the accounts that send it transactions.
Init == InitTree /\ InitNFT /\ InitForm

Next ==
  \/ TxMint
  \/ TxPause
  \/ TxUnpause
  \/ TxWithdraw
  \/ TxSetCost
  \/ TxSetAllowedAddressesRoot
  \/ Tick
  \/ TxReturn

Spec == Init /\ [][Next]_vars

\* The callers of utils.js, next to a contract nobody calls.
SpecTree == Init /\ [][NextTree]_vars

\* The mint form in front of the contract and its owner. Only the steps the
\* page runs by itself are fair: an await of the wallet or of the chain may
\* stay pending for ever (the wallet's prompt is left open, the transaction
\* is never mined), and so may the alert of the catch block stay open.
SpecForm == Init /\ [][NextForm]_vars /\ WF_vars(MintLocalStep)

\* ================================================================ claims
InAllowlist(a) == \E i \in 1 .. Len(allowlist) : allowlist[i] = a

\* C1: round trip. Whenever verify() was called with the proof that
\* getMerkleProof returns for an address a of the allowlist the tree was built
\* from, the root of that tree and the leaf of a, it returned true (and
\* getMerkleProof did not throw for a).
C1_RoundTrip ==
  (/\ ret.op = "verify"
   /\ InAllowlist(ret.address)
   /\ ret.root = Root(tree)
   /\ ret.proof = GetMerkleProof(tree, ret.address, allowlist).value)
  => (ret.ok /\ GetMerkleProof(tree, ret.address, allowlist).throws = "none")

\* C1 witness: a three-address allowlist, a non-empty proof for one of its
\* addresses, verified against the root.
C1_Witness ==
  /\ ret.op = "verify"
  /\ Len(allowlist) = 3
  /\ InAllowlist(ret.address)
  /\ ret.root = Root(tree)
  /\ ret.proof # <<>>
  /\ ret.proof = GetMerkleProof(tree, ret.address, allowlist).value
  /\ ret.ok

\* ------------------------------------------------------------ shared terms
\* The step is a mint transaction: lastTx' holds its sender, arguments,
\* value and receipt.
IsMintStep == lastTx.fn = "none" /\ lastTx'.fn = "mint"

\* The roots that commit to allowlist L: the one utils.js computes and the
\* one over the leaves the contract derives.
RootsOf(L) == {UtilsRoot(L), OnChainRoot(L)}

\* The accounts on the allowlist that root commits to.
CommittedTable ==
  [root \in RootInputs |->
     {a \in Addr : \E L \in CommitLists :
        root \in RootsOf(L) /\ \E i \in 1 .. Len(L) : L[i][1] = a}]
Committed(root) == CommittedTable[root]

OwnerFunctions == {"pause", "unpause", "withdraw", "setCost", "setAllowedAddressesRoot"}

\* C2: compatibility with the on-chain verifier. When allowedAddressesRoot is
\* the root utils.js computes for an allowlist, every address of the list has
\* the same leaf digest in the contract and in hashLeaf, and isAddressAllowed
\* accepts the proof getMerkleProof produces for it.
C2_OnChainCompatible ==
  \A L \in CommitLists :
    allowedAddressesRoot = UtilsRoot(L) =>
      \A i \in 1 .. Len(L) :
        /\ ContractLeaf(L[i][1]) = HashLeaf(<<L[i]>>)
        /\ IsAddressAllowed(L[i][1], UtilsProof(L, L[i]))

\* C3 as stated: a mint succeeds only for a sender on the committed allowlist
\* whose proof verifies, and a mint from any other address reverts with
\* 'Address not in allowed list' and changes nothing.
C3_GatingAsStated ==
  [][IsMintStep =>
     LET sender == lastTx'.sender
         mintAmount == lastTx'.amount
         proof == lastTx'.proof
         value == lastTx'.value
     IN
           /\ lastTx'.status = "ok" =>
                /\ sender \in Committed(allowedAddressesRoot)
                /\ IsAddressAllowed(sender, proof)
           /\ sender \notin Committed(allowedAddressesRoot) =>
                /\ lastTx'.status = "Address not in allowed list"
                /\ UNCHANGED chain]_vars

\* C3 (amended): a mint succeeds only for a sender on the committed allowlist
\* whose proof verifies; a mint from any other address, with any proof,
\* changes nothing and reverts with 'Address not in allowed list' while the
\* contract is not paused, and with 'Contract is paused' while it is.
C3_AllowlistGating ==
  [][IsMintStep =>
     LET sender == lastTx'.sender
         mintAmount == lastTx'.amount
         proof == lastTx'.proof
         value == lastTx'.value
     IN
           /\ lastTx'.status = "ok" =>
                /\ sender \in Committed(allowedAddressesRoot)
                /\ IsAddressAllowed(sender, proof)
           /\ sender \notin Committed(allowedAddressesRoot) =>
                /\ lastTx'.status = IF paused THEN "Contract is paused"
                                    ELSE "Address not in allowed list"
                /\ UNCHANGED chain]_vars

\* C3 witness: with minting open and a root committed that lets the minter
\* in, an account that is not on the list had its mint refused.
C3_Witness ==
  /\ lastTx.fn = "mint"
  /\ lastTx.status = "Address not in allowed list"
  /\ lastTx.sender \notin Committed(allowedAddressesRoot)
  /\ Minter \in Committed(allowedAddressesRoot)
  /\ \E proof \in ProofInputs : IsAddressAllowed(Minter, proof)

\* C4: supply cap. totalSupply() never exceeds maxSupply, and a mint whose
\* amount would take the supply above maxSupply reverts and mints nothing.
C4_SupplyCap ==
  [][/\ Len(allTokens) <= maxSupply
     /\ Len(allTokens') <= maxSupply'
     /\ IsMintStep =>
        LET sender == lastTx'.sender
            mintAmount == lastTx'.amount
            proof == lastTx'.proof
            value == lastTx'.value
        IN
            (Len(allTokens) + mintAmount > maxSupply) =>
              /\ lastTx'.status # "ok"
              /\ UNCHANGED tokenVars]_vars

\* C4 witness: a mint was refused for the cap alone, with tokens minted.
C4_Witness ==
  /\ lastTx.fn = "mint"
  /\ lastTx.status = "Max supply exceeded"
  /\ TotalSupply > 0

\* C5: pausing. While paused every mint reverts and changes nothing; while
\* not paused a mint that meets every other condition succeeds and mints its
\* amount; pause() by the owner sets paused and emits Paused(owner),
\* unpause() by the owner clears it and emits Unpaused(owner).
C5_Pausing ==
  [][/\ IsMintStep =>
        LET sender == lastTx'.sender
            mintAmount == lastTx'.amount
            proof == lastTx'.proof
            value == lastTx'.value
        IN
              /\ paused => (lastTx'.status = "Contract is paused" /\ UNCHANGED chain)
              /\ (/\ ~paused
                  /\ IsAddressAllowed(sender, proof)
                  /\ now >= allowMintingOn
                  /\ mintAmount > 0
                  /\ mintAmount <= maxMintAmountPerTx
                  /\ value >= cost * mintAmount
                  /\ Len(allTokens) + mintAmount <= maxSupply) =>
                   (lastTx'.status = "ok" /\ Len(allTokens') = Len(allTokens) + mintAmount)
     /\ (lastTx.fn = "none" /\ lastTx'.fn = "pause" /\ lastTx'.sender = owner) =>
          /\ paused'
          /\ lastTx'.status = "ok"
          /\ lastTx'.event = [NoEvent EXCEPT !.name = "Paused", !.account = owner]
     /\ (lastTx.fn = "none" /\ lastTx'.fn = "unpause" /\ lastTx'.sender = owner) =>
          /\ ~paused'
          /\ lastTx'.status = "ok"
          /\ lastTx'.event = [NoEvent EXCEPT !.name = "Unpaused", !.account = owner]]_vars

\* C5 witness: the minter, whose mints had gone through before, is refused
\* while the contract is paused.
C5_Witness ==
  /\ lastTx.fn = "mint"
  /\ lastTx.sender = Minter
  /\ lastTx.status = "Contract is paused"
  /\ paused
  /\ BalanceOf(Minter) > 0

\* C6: owner-only operations. pause, unpause, withdraw, setCost and
\* setAllowedAddressesRoot sent by an account that is not the owner revert
\* and leave paused, cost, allowedAddressesRoot, the contract balance and all
\* other contract state unchanged.
C6_OwnerOnly ==
  [][(/\ lastTx.fn = "none"
      /\ lastTx'.fn \in OwnerFunctions
      /\ lastTx'.sender # owner) =>
       /\ lastTx'.status = NotOwner
       /\ lastTx'.event = NoEvent
       /\ UNCHANGED chain]_vars

\* C6 witness: a withdraw by a non-owner was refused with ether in the
\* contract.
C6_Witness ==
  /\ lastTx.fn = "withdraw"
  /\ lastTx.sender # owner
  /\ lastTx.status = NotOwner
  /\ balance > 0

\* C7: mint preconditions. A mint reverts and changes nothing whenever the
\* block time is before allowMintingOn, or the amount is 0, or the amount
\* exceeds maxMintAmountPerTx, or the value sent is below cost * amount.
C7_MintPreconditions ==
  [][IsMintStep =>
     LET sender == lastTx'.sender
         mintAmount == lastTx'.amount
         proof == lastTx'.proof
         value == lastTx'.value
     IN
         (\/ now < allowMintingOn
          \/ mintAmount = 0
          \/ mintAmount > maxMintAmountPerTx
          \/ value < cost * mintAmount) =>
           /\ lastTx'.status \notin {"ok", "none"}
           /\ lastTx'.event = NoEvent
           /\ UNCHANGED chain]_vars

\* C7 witness: an allowlisted sender's mint was refused for its payment.
C7_Witness ==
  /\ lastTx.fn = "mint"
  /\ lastTx.status = "Insufficient funds"
  /\ cost > 0

\* The token ids owner o holds.
OwnedBy(o) == {id \in DOMAIN tokenOwner : tokenOwner[id] = o}

\* C8: token numbering. A successful mint of n tokens at supply s creates
\* exactly the ids s+1 .. s+n, all owned by the sender, and raises totalSupply
\* and the sender's balance by n; the existing ids are exactly
\* 1 .. totalSupply, none is recorded twice, and walletOfOwner(o) lists
\* exactly the ids o owns, in ascending order; no other step, a reverted
\* mint included, changes the tokens (there are none at deployment, so the
\* mints that succeed are the steps that have to keep the books).
C8_TokenNumbering ==
  [][/\ IsMintStep =>
        LET sender == lastTx'.sender
            mintAmount == lastTx'.amount
            proof == lastTx'.proof
            value == lastTx'.value
        IN
            (lastTx'.status = "ok") =>
              LET s == Len(allTokens)
              IN /\ DOMAIN tokenOwner' = DOMAIN tokenOwner \cup ((s + 1) .. (s + mintAmount))
                 /\ (s + 1) .. (s + mintAmount) # {}
                 /\ \A id \in (s + 1) .. (s + mintAmount) :
                      id \notin DOMAIN tokenOwner /\ tokenOwner'[id] = sender
                 /\ \A id \in DOMAIN tokenOwner : tokenOwner'[id] = tokenOwner[id]
                 /\ Len(allTokens') = s + mintAmount
                 /\ nftBalance'[sender] = nftBalance[sender] + mintAmount
     /\ (~IsMintStep \/ lastTx'.status # "ok") => UNCHANGED tokenVars
     /\ (IsMintStep /\ lastTx'.status = "ok") =>
          /\ DOMAIN tokenOwner' = 1 .. Len(allTokens')
          /\ \A i, j \in 1 .. Len(allTokens') : i # j => allTokens'[i] # allTokens'[j]
          /\ \A o \in Addr :
               LET w == WalletOfOwner(o)'
               IN /\ {w[i] : i \in 1 .. Len(w)} = OwnedBy(o)'
                  /\ \A i \in 1 .. (Len(w) - 1) : w[i] < w[i + 1]]_vars

\* C8 witness: two accounts hold tokens, one of them two tokens from separate
\* mints, and walletOfOwner lists them.
C8_Witness ==
  /\ TotalSupply = 3
  /\ WalletOfOwner(Minter) = <<1, 3>>
  /\ WalletOfOwner(Deployer) = <<2>>

C10_RootAtDeployment ==
  InitNFT =>
    \E L \in CommitLists :
      /\ allowedAddressesRoot \in RootsOf(L)
      /\ \E proof \in ProofInputs : IsAddressAllowed(Minter, proof)

\* ------------------------------------------------- the tree of utils.js
\* leaf(a): the leaf digest of address string a.
Leaf(a) == HashLeaf(<<a>>)

\* C11: odd-layer promotion. In every tree built, the last node of a layer
\* of odd length (above one node) is the last node of the next layer,
\* unchanged, and for a three-address list [A, B, C] the root is
\* combine(combine(leaf(A), leaf(B)), leaf(C)), combine being the hash of
\* the sorted pair: in the tree the caller holds and in a tree any
\* buildMerkleTree of the repository builds from that list.
C11_OddLayerPromotion ==
  tree.initialized =>
    /\ \A k \in 1 .. (Len(tree.layers) - 1) :
         LET layer == tree.layers[k]
             next == tree.layers[k + 1]
         IN Len(layer) % 2 = 1 =>
              /\ Len(next) = (Len(layer) + 1) \div 2
              /\ next[Len(next)] = layer[Len(layer)]
    /\ Len(allowlist) = 3 =>
         LET promoted ==
               OzHashPair(OzHashPair(Leaf(allowlist[1]), Leaf(allowlist[2])),
                          Leaf(allowlist[3]))
         IN /\ GetRoot(tree.layers) = promoted
            /\ ret.op = "buildAgain" => ret.root = ToHex(promoted)

\* C12: singleton. For a one-address list [A] the root is leaf(A), the proof
\* getMerkleProof returns for A is empty, and verify([], root, leaf(A)) is
\* true, both computed afresh and whenever the caller made that call.
C12_Singleton ==
  (tree.initialized /\ Len(allowlist) = 1) =>
    LET A == allowlist[1]
    IN /\ Root(tree) = LeafHex(A)
       /\ GetMerkleProof(tree, A, allowlist) = [throws |-> "none", value |-> <<>>]
       /\ Verify(tree, <<>>, Root(tree), LeafHex(A))
       /\ (/\ ret.op = "verify"
           /\ ret.proof = <<>>
           /\ ret.root = Root(tree)
           /\ ret.leaf = LeafHex(A)) => ret.ok

\* C12 witness: verify([], root, leaf(A)) was called on the tree of [A] and
\* returned true.
C12_Witness ==
  /\ tree.initialized
  /\ Len(allowlist) = 1
  /\ ret.op = "verify"
  /\ ret.proof = <<>>
  /\ ret.root = Root(tree)
  /\ ret.leaf = LeafHex(allowlist[1])
  /\ ret.ok

\* The 20-byte address of string x is the address of some entry of the
\* allowlist.
AddressInList(x) == \E i \in 1 .. Len(allowlist) : allowlist[i][1] = x[1]

\* Every node of tree t and the leaf of every address, as hex strings: what
\* a forged proof can be put together from.
KnownDigests(t) ==
  UNION {{ToHex(t.layers[k][i]) : i \in 1 .. Len(t.layers[k])} : k \in 1 .. Len(t.layers)}
    \cup {LeafHex(a) : a \in AddrStr}

\* The proofs of at most MaxProofLen such digests.
ForgedProofs(t) == SeqsUpTo(KnownDigests(t), MaxProofLen)

\* C13: non-membership. For an address x that is not on the allowlist the
\* tree was built from, verify(proof, root, leaf(x)) is false: whenever the
\* caller made such a call, and for every proof put together from the nodes
\* of the tree and the leaves of the addresses.
C13_NonMembership ==
  /\ (/\ ret.op = "verify"
      /\ tree.initialized
      /\ ret.root = Root(tree)
      /\ ~AddressInList(ret.address)) => ~ret.ok
  /\ ret.op = "buildMerkleTree" =>
       \A x \in AddrStr :
         ~AddressInList(x) =>
           \A proof \in ForgedProofs(tree) :
             ~Verify(tree, proof, Root(tree), LeafHex(x))

\* C13 witness: verify was called against the root of a tree of two or more
\* addresses with a non-empty proof and the leaf of an address that is not
\* listed, and returned false.
C13_Witness ==
  /\ ret.op = "verify"
  /\ Len(allowlist) >= 2
  /\ ret.root = Root(tree)
  /\ ret.proof # <<>>
  /\ ~AddressInList(ret.address)
  /\ ~ret.ok

\* C14: unknown address. getMerkleProof for an address that is not on the
\* allowlist throws, and the error is not the one getProof throws for an
\* index that is not a position of the list.
C14_UnknownAddress ==
  (/\ ret.op = "getMerkleProof"
   /\ ~AddressInList(ret.address)) =>
     /\ ret.throws # "none"
     /\ ret.throws # GetProof(tree, Len(allowlist)).throws

\* C15: empty input. buildMerkleTree of an empty list throws an empty-input
\* error and yields no tree and no root.
C15_EmptyInput ==
  (ret.op = "buildMerkleTree" /\ allowlist = <<>>) =>
    /\ ret.throws # "none"
    /\ ~tree.initialized
    /\ ret.root = Null

\* C16: invalid position. getProof(index) throws 'Index out of bounds' for
\* every index below 0 or at or above the number of addresses, and for every
\* other index returns, without throwing, a proof that verifies the leaf at
\* that position against the root.
C16_InvalidPosition ==
  ret.op = "getProof" =>
    IF ret.index < 0 \/ ret.index >= Len(allowlist)
      THEN ret.throws = "Index out of bounds"
    ELSE /\ ret.throws = "none"
         /\ Verify(tree, ret.proof, Root(tree), LeafHex(allowlist[ret.index + 1]))

\* C16 witness: getProof was called with the index just past the last
\* position of a non-empty list and threw.
C16_Witness ==
  /\ ret.op = "getProof"
  /\ Len(allowlist) >= 1
  /\ ret.index = Len(allowlist)
  /\ ret.throws = "Index out of bounds"

\* The proof has an element that is not a well-formed hex string.
Malformed(proof) ==
  \E i \in 1 .. Len(proof) : proof[i] = <<>> \/ Head(proof[i]) # HexPrefix

\* C17: verify is total. Every call of verify returns without throwing, and
\* returns false when the proof is malformed.
C17_VerifyTotal ==
  ret.op = "verify" =>
    /\ ret.throws = "none"
    /\ Malformed(ret.proof) => ~ret.ok

\* Tree instances other than the caller's: for every list of at most one
\* address, the instance buildMerkleTree yields and the instance
\* new CustomMerkleTree(...) yields before initialize() has run.
OtherInstances ==
  {BuildMerkleTree(L) : L \in SeqsUpTo(AddrStr, 1)}
    \cup {NewTree(WrapAddresses(L), {"address"}) : L \in SeqsUpTo(AddrStr, 1)}

\* C18: verify is independent of the instance. Whatever verify returned on
\* the caller's tree, it returns for the same proof, root and leaf on every
\* other instance, initialized or not.
C18_VerifyInstanceIndependent ==
  (ret.op = "verify" /\ ret.throws = "none") =>
    \A t \in OtherInstances :
      Verify(t, ret.proof, ret.root, ret.leaf) = ret.ok

\* C19: determinism. A second tree built from the same ordered list, by any
\* buildMerkleTree of the repository (utils.js, part_001, part_000), has the
\* root of the tree the caller holds and gives for every address the same
\* proof (or the same error), also after initialize() was called again on the
\* caller's tree.
C19_Determinism ==
  ret.op = "buildAgain" =>
    /\ ret.root = Root(tree)
    /\ ret.throws = GetMerkleProof(tree, ret.address, allowlist).throws
    /\ ret.proof = GetMerkleProof(tree, ret.address, allowlist).value

\* The sibling path that starts at 0-based position index of layer 0 of
\* tree t, as hex strings.
PathFrom(t, index) ==
  LET path == ProofFrom(t.layers, 1, index)
  IN [i \in 1 .. Len(path) |-> ToHex(path[i])]

\* C20: stable leaf positions. For every position of the list, getProof of
\* that index returns the sibling path that starts at that position of
\* layer 0, whether or not the address occurs elsewhere in the list.
C20_StablePositions ==
  (ret.op = "getProof" /\ ret.throws = "none") =>
    ret.proof = PathFrom(tree, ret.index)

\* C21: atomic build. Whenever a caller has taken the value buildMerkleTree(L)
\* of utils.js returns, with await or as the call returns it, the root it
\* reads from that value is a digest (neither null nor undefined), asking it
\* for a proof raises nothing, and getProof answers for every position of L.
C21_AtomicBuild ==
  /\ (\/ ret.op = "buildMerkleTree"
      \/ ret.op = "buildNoAwait" /\ ret.impl = "utils.js") =>
       /\ ret.root # Null
       /\ ret.root # Undefined
       /\ ret.throws = "none"
  /\ ret.op = "buildMerkleTree" =>
       \A i \in 0 .. (Len(allowlist) - 1) : GetProof(tree, i).throws = "none"

\* C22: case-insensitive addresses. Two strings of one 20-byte address that
\* differ in the case of their hex letters have the same leaf digest, and
\* whenever getMerkleProof was asked for a string of an address the list
\* holds, in whichever spelling, it returned a proof (it did not throw) that
\* verifies against the root.
C22_CaseInsensitive ==
  /\ \A a \in AddrStr, b \in AddrStr : a[1] = b[1] => LeafHex(a) = LeafHex(b)
  /\ (ret.op = "getMerkleProof" /\ AddressInList(ret.address)) =>
       /\ ret.throws = "none"
       /\ Verify(tree, ret.proof, Root(tree), LeafHex(ret.address))

\* C23: immutability. No step taken on a built tree (initialize, getProof,
\* getMerkleProof, verify, or the caller taking a result) changes its root,
\* the answer of getProof for any index, its leaves or its layers; a second
\* initialize in particular rebuilds nothing.
C23_Immutable ==
  [][tree.initialized =>
       \A after \in {tree'} :
         /\ Root(after) = Root(tree)
         /\ \A i \in -1 .. MaxLen : GetProof(after, i) = GetProof(tree, i)
         /\ after.leaves = tree.leaves
         /\ after.layers = tree.layers
         /\ after.initialized]_vars

\* C23 witness: initialize() has been called again on a tree built from
\* three addresses, and returned the tree with the root it had.
C23_Witness ==
  /\ ret.op = "initialize"
  /\ tree.initialized
  /\ Len(tree.values) = 3
  /\ Len(tree.leaves) = 3
  /\ ret.root = ToHex(GetRoot(tree.layers))

RECURSIVE Pow2(_)
Pow2(k) == IF k = 0 THEN 1 ELSE 2 * Pow2(k - 1)

\* The position, in layer k (layer 1 holds the leaves), of the node on the
\* path from the leaf at index: a pair's parent and a promoted node both land
\* on half the position, rounded down.
PositionAt(index, k) == index \div Pow2(k - 1)

\* The position of the pair partner of the node at pos.
PartnerOf(pos) == IF pos % 2 = 1 THEN pos - 1 ELSE pos + 1

\* The layers at which the node on the path from the leaf at index has a
\* pair partner; at the others it is promoted, or it is the root.
PairedLayers(t, index) ==
  {k \in 1 .. Len(t.layers) : PartnerOf(PositionAt(index, k)) < Len(t.layers[k])}

\* The j-th of these layers, counted from the leaves.
NthPairedLayer(t, index, j) ==
  CHOOSE k \in PairedLayers(t, index) :
    Cardinality({m \in PairedLayers(t, index) : m <= k}) = j

\* The digest of the pair partner at layer k, as getProof prints it.
SiblingAt(t, index, k) ==
  ToHex(t.layers[k][PartnerOf(PositionAt(index, k)) + 1])

\* C24: proof shape. Whenever getProof(i) returned a proof, the proof has one
\* element for each layer at which the node on the path from leaf i has a
\* pair partner, namely the digest of that partner, in leaf-to-root order,
\* and no element for a layer at which the node is promoted.
C24_ProofShape ==
  (ret.op = "getProof" /\ ret.throws = "none") =>
    /\ Len(ret.proof) = Cardinality(PairedLayers(tree, ret.index))
    /\ \A j \in 1 .. Len(ret.proof) :
         ret.proof[j] = SiblingAt(tree, ret.index, NthPairedLayer(tree, ret.index, j))

\* C25: mint form, as far as the handler of part_003 can promise. While no
\* handler runs the form is not waiting; the step that ends a handler leaves
\* isWaiting false and isLoading true (the reload is requested); a handler in
\* its catch block (the user rejected, the transaction reverted, the wallet
\* gave no address, or the proof could not be generated) or past its try
\* block (the transaction was confirmed) starts no further await, it only
\* goes on to its end; a handler past its try block with no alert open (the
\* transaction was confirmed) opens none; and a waiting form is
\* always followed by a state with isWaiting false and the reload requested,
\* or by a state in which the handler awaits the wallet or the chain
\* (getAddress, mint, wait) or the closing of the alert of its catch block,
\* the only places where the form can stay waiting. Together: after a
\* confirmed transaction the handler reaches its end by itself, after any
\* failure it does once the alert is closed.
C25_MintForm ==
  /\ [](form.pc = "idle" => ~form.isWaiting)
  /\ [][(form.pc # "idle" /\ form'.pc = "idle") =>
          (~form'.isWaiting /\ form'.isLoading)]_vars
  /\ [][form.pc \in {"catch", "finish"} =>
          form'.pc \in {form.pc, "finish", "idle"}]_vars
  /\ [][(form.pc = "finish" /\ form.alert = "none") =>
          form'.alert = "none"]_vars
  /\ (form.isWaiting ~>
        (\/ form.pc \in {"getAddress", "send", "wait"}
         \/ form.pc = "finish" /\ form.alert # "none"
         \/ ~form.isWaiting /\ form.isLoading))

\* C25 as stated: every submission, which sets isWaiting, is followed by a
\* state with isWaiting false and the reload requested; the form never stays
\* in the waiting state. It fails when an await of the wallet or of the chain
\* never settles, and when the alert of the catch block is never closed.
C25_NeverStaysWaiting ==
  form.isWaiting ~> (~form.isWaiting /\ form.isLoading)

\* C25 witness: a handler has ended after its transaction was confirmed
\* (the mint is the last transaction of the chain and it succeeded): the
\* form is not waiting and the reload is requested.
C25_Witness ==
  /\ form.pc = "idle"
  /\ form.isLoading
  /\ ~form.isWaiting
  /\ form.alert = "none"
  /\ lastTx.fn = "mint"
  /\ lastTx.status = "ok"
  /\ TotalSupply > 0
====
